---- MODULE Spec2Model ----
(***************************************************************************)
(* Model of main/main.c: the WiFi manager of ESP32-WiFi-AP-STA-Persist.    *)
(*                                                                         *)
(* Three execution contexts run the code:                                  *)
(*   "main"  app_main, up to the creation of the TCP server task;          *)
(*   "task"  tcp_server_task, the provisioning server;                     *)
(*   "evt"   the default event loop task, which runs wifi_event_handler.   *)
(* The radio driver, the network and the provisioning client are the       *)
(* environment.  Strings are sequences of byte values.                     *)
(***************************************************************************)
EXTENDS Integers, Sequences, FiniteSets, TLC

\* ------------------------------------------------------------- constants
WIFI_NAME_SIZE == 32
WIFI_PASS_SIZE == 64
MAX_RETRY == 5
RX_BUFFER_SIZE == 512
STA_SSID_FIELD == 32
STA_PASSWORD_FIELD == 64

\* Bound of the model: the number of events the event loop queue holds.
MaxQueue == 2

\* Byte values the extractor looks for or writes: '"', ':' and '_'.
QUOTE == 34
COLON == 58
UNDERSCORE == 95

WIFI_SSID_KEY == "wifi_ssid"
WIFI_PASS_KEY == "wifi_pass"

\* "\"wifi_name\"" and "\"wifi_password\"" as bytes (lines 341, 351).
KEY_WIFI_NAME == <<34, 119, 105, 102, 105, 95, 110, 97, 109, 101, 34>>
KEY_WIFI_PASSWORD ==
    <<34, 119, 105, 102, 105, 95, 112, 97, 115, 115, 119, 111, 114, 100, 34>>

\* ------------------------------------------------------ string functions
\* strstr(hay + from - 1, needle): index of the first match at or after
\* `from`, 0 when there is none.
strstr(hay, from, needle) ==
    LET n == Len(needle)
        hits == {i \in from..(Len(hay) - n + 1) :
                    \A j \in 1..n : hay[i + j - 1] = needle[j]}
    IN  IF hits = {} THEN 0
        ELSE CHOOSE i \in hits : \A k \in hits : i <= k

\* strchr(hay + from - 1, c): index of the first c at or after `from`, 0
\* when there is none.
strchr(hay, from, c) ==
    LET hits == {i \in from..Len(hay) : hay[i] = c}
    IN  IF hits = {} THEN 0
        ELSE CHOOSE i \in hits : \A k \in hits : i <= k

\* strncpy(dst, src, n) into a zeroed field of n bytes, read back as a C
\* string: the first n bytes of src.
strncpy(src, n) == IF Len(src) <= n THEN src ELSE SubSeq(src, 1, n)

NotFound == [found |-> FALSE, value |-> <<>>]

\* Mutant of validate_and_extract_value: the ':' is not looked for.
validate_and_extract_value_NoColon(json_str, key, output_size) ==
    LET k == strstr(json_str, 1, key)
    IN  IF k = 0 THEN NotFound
        ELSE
        LET c == k
        IN  IF c = 0 THEN NotFound
            ELSE
            LET q == strchr(json_str, c, QUOTE)
            IN  IF q = 0 THEN NotFound
                ELSE
                LET key_start == q + 1
                    key_end == strchr(json_str, key_start, QUOTE)
                IN  IF key_end = 0 THEN NotFound
                    ELSE
                    LET key_len == key_end - key_start
                    IN  IF key_len >= output_size THEN NotFound
                        ELSE [found |-> TRUE,
                              value |-> [i \in 1..key_len |->
                                  IF json_str[key_start + i - 1] < 32
                                  THEN UNDERSCORE
                                  ELSE json_str[key_start + i - 1]]]

\* Mutant of validate_and_extract_value: a value as long as the capacity is
\* accepted.
validate_and_extract_value_ExactFit(json_str, key, output_size) ==
    LET k == strstr(json_str, 1, key)
    IN  IF k = 0 THEN NotFound
        ELSE
        LET c == strchr(json_str, k, COLON)
        IN  IF c = 0 THEN NotFound
            ELSE
            LET q == strchr(json_str, c, QUOTE)
            IN  IF q = 0 THEN NotFound
                ELSE
                LET key_start == q + 1
                    key_end == strchr(json_str, key_start, QUOTE)
                IN  IF key_end = 0 THEN NotFound
                    ELSE
                    LET key_len == key_end - key_start
                    IN  IF key_len > output_size THEN NotFound
                        ELSE [found |-> TRUE,
                              value |-> [i \in 1..key_len |->
                                  IF json_str[key_start + i - 1] < 32
                                  THEN UNDERSCORE
                                  ELSE json_str[key_start + i - 1]]]

\* validate_and_extract_value: the key, then ':', then '"', then '"'.
validate_and_extract_value(json_str, key, output_size) ==
    LET k == strstr(json_str, 1, key)
    IN  IF k = 0 THEN NotFound
        ELSE
        LET c == strchr(json_str, k, COLON)
        IN  IF c = 0 THEN NotFound
            ELSE
            LET q == strchr(json_str, c, QUOTE)
            IN  IF q = 0 THEN NotFound
                ELSE
                LET key_start == q + 1
                    key_end == strchr(json_str, key_start, QUOTE)
                IN  IF key_end = 0 THEN NotFound
                    ELSE
                    LET key_len == key_end - key_start
                    IN  IF key_len >= output_size THEN NotFound
                        ELSE [found |-> TRUE,
                              value |-> [i \in 1..key_len |->
                                  IF json_str[key_start + i - 1] < 32
                                  THEN UNDERSCORE
                                  ELSE json_str[key_start + i - 1]]]

\* ------------------------------------------------------------- messages
\* {"wifi_name":"v"} and {"wifi_password":"v"}; 123 and 125 are the braces.
NameMsg(v) == <<123>> \o KEY_WIFI_NAME \o <<COLON, QUOTE>> \o v \o <<QUOTE, 125>>
PassMsg(v) == <<123>> \o KEY_WIFI_PASSWORD \o <<COLON, QUOTE>> \o v \o <<QUOTE, 125>>

\* The name "A" and the secret "x".
NameA == <<65>>
SecretX == <<120>>

\* The texts a client may send: a name, an empty name, a secret, an empty
\* secret, and a text with neither field.
Messages ==
    { NameMsg(NameA), NameMsg(<<>>), PassMsg(SecretX), PassMsg(<<>>),
      <<123, 125>> }

\* The credentials a previous run may have left in the store.
StoredNames == {NameA}
StoredSecrets == {SecretX}

NoCred == [ssid |-> <<>>, password |-> <<>>]

\* ----------------------------------------------------------------- state
VARIABLES
    pc,             \* position of each context in its code
    nvs,            \* the store behind my_nvs_handle: key -> string
    bits,           \* WIFI_CONNECTED_BIT of wifi_event_group
    retry_count,    \* line 37
    wifi_mode,      \* the driver's mode: "NULL", "STA" or "AP"
    wifi_started,   \* esp_wifi_start done and not stopped since
    sta_config,     \* the driver's station configuration (ssid, password)
    sta_state,      \* the station link: "idle", "connecting", "connected"
    event_queue,    \* events posted to the default event loop
    h_cfg,          \* wifi_config of wifi_event_handler (line 137)
    m_found,        \* result of nvs_read_wifi_data in app_main (line 421)
    m_cred,         \* ssid and password of app_main (lines 417-418)
    rx_buffer,      \* tcp_server_task's rx_buffer (line 286)
    ssid,           \* tcp_server_task's ssid (line 287)
    password,       \* tcp_server_task's password (line 288)
    ssid_received,  \* tcp_server_task's flag (line 289)
    reply,          \* the last response sent to the client
    name_here,      \* history: ssid was extracted on the current connection
    validated,      \* history: configurations under which an address was acquired
    signalled,      \* history: the connected bit was set since the last handshake start
    disc_run,       \* history: station-disconnected events handled in a row
    last_outcome    \* history: what the last connect_wifi call returned

vars == <<pc, nvs, bits, retry_count, wifi_mode, wifi_started, sta_config,
          sta_state, event_queue, h_cfg, m_found, m_cred, rx_buffer, ssid,
          password, ssid_received, reply, name_here, validated, signalled,
          disc_run, last_outcome>>

radio == <<wifi_mode, wifi_started, sta_config, sta_state>>
task_locals ==
    <<rx_buffer, ssid, password, ssid_received, reply, name_here>>
main_locals == <<m_found, m_cred>>
history == <<validated, signalled, disc_run, last_outcome>>

\* The stores a device may boot with: each field absent or left by an
\* earlier run.
InitialStores ==
    { [k \in {} |-> <<>>] }
    \cup { [k \in {WIFI_SSID_KEY} |-> n] : n \in StoredNames }
    \cup { [k \in {WIFI_PASS_KEY} |-> s] : s \in StoredSecrets }
    \cup { [k \in {WIFI_SSID_KEY, WIFI_PASS_KEY} |->
               IF k = WIFI_SSID_KEY THEN n ELSE s] :
           n \in StoredNames, s \in StoredSecrets }

Init ==
    /\ pc = [main |-> "m_init", task |-> "t_none", evt |-> "h_idle"]
    /\ nvs \in InitialStores
    /\ bits = FALSE
    /\ retry_count = 0
    /\ wifi_mode = "NULL"
    /\ wifi_started = FALSE
    /\ sta_config = NoCred
    /\ sta_state = "idle"
    /\ event_queue = <<>>
    /\ h_cfg = NoCred
    /\ m_found = FALSE
    /\ m_cred = NoCred
    /\ rx_buffer = <<>>
    /\ ssid = <<>>
    /\ password = <<>>
    /\ ssid_received = FALSE
    /\ reply = "none"
    /\ name_here = FALSE
    /\ validated = {}
    /\ signalled = FALSE
    /\ disc_run = 0
    /\ last_outcome = "none"

Goto(self, label) == pc' = [pc EXCEPT ![self] = label]

\* ------------------------------------------------------------ the store
\* nvs_set_str on success: the key now holds the value.
nvs_set_str(store, key, value) ==
    [k \in DOMAIN store \cup {key} |-> IF k = key THEN value ELSE store[k]]

\* Mutant of nvs_get_ok: a value that fills the buffer up to the terminator
\* is refused.
nvs_get_ok_NoRoomForNul(store, key, size) ==
    key \in DOMAIN store /\ Len(store[key]) + 1 < size

\* nvs_get_str succeeds when the key exists and the value and its
\* terminator fit the buffer.
nvs_get_ok(store, key, size) ==
    key \in DOMAIN store /\ Len(store[key]) + 1 <= size

\* nvs_read_wifi_data: both fields must be readable.
nvs_read_ok(store) ==
    /\ nvs_get_ok(store, WIFI_SSID_KEY, WIFI_NAME_SIZE)
    /\ nvs_get_ok(store, WIFI_PASS_KEY, WIFI_PASS_SIZE)

nvs_read_value(store) ==
    [ssid |-> store[WIFI_SSID_KEY], password |-> store[WIFI_PASS_KEY]]

\* ------------------------------------------------------------ the driver
QueueHasRoom == Len(event_queue) < MaxQueue

\* Mutant of esp_wifi_stop: the radio is left running.
esp_wifi_stop_LeftRunning ==
    UNCHANGED <<wifi_started, sta_state, event_queue>>

\* esp_wifi_stop: the radio stops; a connected station is disconnected
\* and the driver posts WIFI_EVENT_STA_DISCONNECTED for it.
esp_wifi_stop ==
    /\ (wifi_started /\ sta_state = "connected") => QueueHasRoom
    /\ wifi_started' = FALSE
    /\ sta_state' = "idle"
    /\ event_queue' = IF wifi_started /\ sta_state = "connected"
                      THEN Append(event_queue, "STA_DISCONNECTED")
                      ELSE event_queue

\* esp_wifi_connect: starts a connection attempt when the radio runs in
\* station mode with a usable SSID; otherwise it returns an error, which
\* the handler ignores.
esp_wifi_connect_state ==
    IF wifi_started /\ wifi_mode = "STA" /\ sta_state = "idle"
       /\ sta_config.ssid # <<>>
    THEN "connecting"
    ELSE sta_state

\* ---------------------------------------------------------- connect_wifi
\* connect_wifi runs in its caller's context: app_main or tcp_server_task.
Callers == {"main", "task"}

\* The arguments of the call in progress.
connect_args(self) ==
    IF self = "main" THEN m_cred ELSE [ssid |-> ssid, password |-> password]

\* Line 166: esp_wifi_stop().
connect_stop(self) ==
    /\ pc[self] = "c_stop"
    /\ esp_wifi_stop
    /\ last_outcome' = "none"
    /\ Goto(self, "c_mode")
    /\ UNCHANGED <<nvs, bits, retry_count, wifi_mode, sta_config, h_cfg,
                   main_locals, task_locals, validated, signalled, disc_run>>

\* Line 167: esp_wifi_set_mode(WIFI_MODE_STA).
connect_set_mode(self) ==
    /\ pc[self] = "c_mode"
    /\ wifi_mode' = "STA"
    /\ Goto(self, "c_config")
    /\ UNCHANGED <<nvs, bits, retry_count, wifi_started, sta_config, sta_state,
                   event_queue, h_cfg, main_locals, task_locals, history>>

\* Lines 161-162, 168: the copied arguments become the station configuration.
connect_set_config(self) ==
    /\ pc[self] = "c_config"
    /\ sta_config' = [ssid |-> strncpy(connect_args(self).ssid, STA_SSID_FIELD),
                      password |-> strncpy(connect_args(self).password,
                                           STA_PASSWORD_FIELD)]
    /\ Goto(self, "c_start")
    /\ UNCHANGED <<nvs, bits, retry_count, wifi_mode, wifi_started, sta_state,
                   event_queue, h_cfg, main_locals, task_locals, history>>

\* Line 169: esp_wifi_start(); the driver posts WIFI_EVENT_STA_START.
connect_start(self) ==
    /\ pc[self] = "c_start"
    /\ QueueHasRoom
    /\ wifi_started' = TRUE
    /\ event_queue' = Append(event_queue, "STA_START")
    /\ signalled' = FALSE
    /\ Goto(self, "c_wait")
    /\ UNCHANGED <<nvs, bits, retry_count, wifi_mode, sta_config, sta_state, h_cfg,
                   main_locals, task_locals, validated, disc_run,
                   last_outcome>>

\* Lines 174-183: xEventGroupWaitBits returns at once when the bit is set
\* (it is not cleared on exit), and connect_wifi returns ESP_OK.
connect_wait_ok(self) ==
    /\ pc[self] = "c_wait"
    /\ bits
    /\ last_outcome' = "connected"
    /\ Goto(self, "c_ok")
    /\ UNCHANGED <<nvs, bits, retry_count, radio, event_queue, h_cfg,
                   main_locals, task_locals, validated, signalled, disc_run>>

\* Lines 174-185: the wait times out with the bit clear.
connect_wait_timeout(self) ==
    /\ pc[self] = "c_wait"
    /\ ~bits
    /\ Goto(self, "c_timeout")
    /\ UNCHANGED <<nvs, bits, retry_count, radio, event_queue, h_cfg,
                   main_locals, task_locals, history>>

\* Lines 186-187: esp_wifi_stop(); return ESP_FAIL.
connect_timeout_stop(self) ==
    /\ pc[self] = "c_timeout"
    /\ esp_wifi_stop
    /\ last_outcome' = "timed_out"
    /\ Goto(self, "c_fail")
    /\ UNCHANGED <<nvs, bits, retry_count, wifi_mode, sta_config, h_cfg,
                   main_locals, task_locals, validated, signalled, disc_run>>

connect_wifi(self) ==
    \/ connect_stop(self)
    \/ connect_set_mode(self)
    \/ connect_set_config(self)
    \/ connect_start(self)
    \/ connect_wait_ok(self)
    \/ connect_wait_timeout(self)
    \/ connect_timeout_stop(self)

\* ---------------------------------------------------- nvs_write_wifi_data
\* nvs_write_wifi_data runs in the handler's context or in the task's.
Writers == {"task", "evt"}

write_args(self) ==
    IF self = "evt" THEN h_cfg ELSE [ssid |-> ssid, password |-> password]

\* Lines 73-74: nvs_set_str of the SSID, which may fail.
write_ssid(self) ==
    /\ pc[self] = "w_ssid"
    /\ \/ /\ nvs' = nvs_set_str(nvs, WIFI_SSID_KEY, write_args(self).ssid)
          /\ Goto(self, "w_pass")
       \/ /\ nvs' = nvs
          /\ Goto(self, "w_false")
    /\ UNCHANGED <<bits, retry_count, radio, event_queue, h_cfg, main_locals,
                   task_locals, history>>

\* Lines 77-78: nvs_set_str of the password, which may fail.
write_pass(self) ==
    /\ pc[self] = "w_pass"
    /\ \/ /\ nvs' = nvs_set_str(nvs, WIFI_PASS_KEY, write_args(self).password)
          /\ Goto(self, "w_commit")
       \/ /\ nvs' = nvs
          /\ Goto(self, "w_false")
    /\ UNCHANGED <<bits, retry_count, radio, event_queue, h_cfg, main_locals,
                   task_locals, history>>

\* Lines 81-85: nvs_commit, which may fail.
write_commit(self) ==
    /\ pc[self] = "w_commit"
    /\ \/ Goto(self, "w_true")
       \/ Goto(self, "w_false")
    /\ UNCHANGED <<nvs, bits, retry_count, radio, event_queue, h_cfg,
                   main_locals, task_locals, history>>

nvs_write_wifi_data(self) ==
    \/ write_ssid(self)
    \/ write_pass(self)
    \/ write_commit(self)

\* ---------------------------------------------------- wifi_event_handler
\* The event loop task runs the handler for one event at a time.

\* Lines 115-117: station started, connect.
handler_sta_start ==
    /\ pc["evt"] = "h_idle"
    /\ event_queue # <<>>
    /\ Head(event_queue) = "STA_START"
    /\ event_queue' = Tail(event_queue)
    /\ sta_state' = esp_wifi_connect_state
    /\ UNCHANGED <<pc, nvs, bits, retry_count, wifi_mode, wifi_started,
                   sta_config, h_cfg, main_locals, task_locals, history>>

\* Mutant of RetryAllowed: the comparison is <= instead of <.
RetryAllowed_OffByOne == retry_count <= MAX_RETRY

\* Line 121: a reconnect is issued while retries remain.
RetryAllowed == retry_count < MAX_RETRY

\* Lines 120-129: station disconnected, reconnect or give up.
handler_sta_disconnected ==
    /\ pc["evt"] = "h_idle"
    /\ event_queue # <<>>
    /\ Head(event_queue) = "STA_DISCONNECTED"
    /\ event_queue' = Tail(event_queue)
    /\ IF RetryAllowed
       THEN /\ sta_state' = esp_wifi_connect_state
            /\ retry_count' = retry_count + 1
            /\ bits' = bits
       ELSE /\ bits' = FALSE
            /\ UNCHANGED <<sta_state, retry_count>>
    /\ disc_run' = IF disc_run < MAX_RETRY THEN disc_run + 1 ELSE disc_run
    /\ UNCHANGED <<pc, nvs, wifi_mode, wifi_started, sta_config, h_cfg,
                   main_locals, task_locals, validated, signalled,
                   last_outcome>>

\* Line 131: the address-acquired event is taken from the queue.
handler_got_ip ==
    /\ pc["evt"] = "h_idle"
    /\ event_queue # <<>>
    /\ Head(event_queue) = "GOT_IP"
    /\ event_queue' = Tail(event_queue)
    /\ disc_run' = 0
    /\ Goto("evt", "h_getcfg")
    /\ UNCHANGED <<nvs, bits, retry_count, radio, h_cfg, main_locals,
                   task_locals, validated, signalled, last_outcome>>

\* Lines 137-140: esp_wifi_get_config reads the configuration the driver
\* holds now, and nvs_write_wifi_data is called with it.
handler_get_config ==
    /\ pc["evt"] = "h_getcfg"
    /\ h_cfg' = sta_config
    /\ Goto("evt", "w_ssid")
    /\ UNCHANGED <<nvs, bits, retry_count, radio, event_queue, main_locals,
                   task_locals, history>>

\* Lines 140-146: whatever the write returned, the connected bit is set.
handler_set_bits ==
    /\ pc["evt"] \in {"w_true", "w_false"}
    /\ bits' = TRUE
    /\ signalled' = TRUE
    /\ h_cfg' = NoCred
    /\ Goto("evt", "h_reset")
    /\ UNCHANGED <<nvs, retry_count, radio, event_queue, main_locals,
                   task_locals, validated, disc_run, last_outcome>>

\* Line 147: retry_count = 0.
handler_reset_retry ==
    /\ pc["evt"] = "h_reset"
    /\ retry_count' = 0
    /\ Goto("evt", "h_idle")
    /\ UNCHANGED <<nvs, bits, radio, event_queue, h_cfg, main_locals,
                   task_locals, history>>

\* Lines 113-149: any other WIFI_EVENT matches no branch.
handler_other ==
    /\ pc["evt"] = "h_idle"
    /\ event_queue # <<>>
    /\ Head(event_queue) = "AP_START"
    /\ event_queue' = Tail(event_queue)
    /\ UNCHANGED <<pc, nvs, bits, retry_count, radio, h_cfg, main_locals,
                   task_locals, history>>

wifi_event_handler ==
    \/ handler_sta_start
    \/ handler_sta_disconnected
    \/ handler_got_ip
    \/ handler_get_config
    \/ handler_set_bits
    \/ handler_reset_retry
    \/ handler_other

\* ------------------------------------------------- the network (driver)
\* Line 163 sets the threshold WIFI_AUTH_WPA2_PSK: the station joins
\* secured networks only, which takes a network name and a passphrase.
CanAssociate(cfg) == cfg.ssid # <<>> /\ cfg.password # <<>>

\* The station associates and acquires an address: IP_EVENT_STA_GOT_IP.
net_got_ip ==
    /\ wifi_started /\ wifi_mode = "STA" /\ sta_state = "connecting"
    /\ CanAssociate(sta_config)
    /\ QueueHasRoom
    /\ sta_state' = "connected"
    /\ event_queue' = Append(event_queue, "GOT_IP")
    /\ validated' = validated \cup {sta_config}
    /\ UNCHANGED <<pc, nvs, bits, retry_count, wifi_mode, wifi_started,
                   sta_config, h_cfg, main_locals, task_locals, signalled,
                   disc_run, last_outcome>>

\* A connection attempt fails or the link is lost:
\* WIFI_EVENT_STA_DISCONNECTED.
net_disconnected ==
    /\ wifi_started /\ wifi_mode = "STA"
    /\ sta_state \in {"connecting", "connected"}
    /\ QueueHasRoom
    /\ sta_state' = "idle"
    /\ event_queue' = Append(event_queue, "STA_DISCONNECTED")
    /\ UNCHANGED <<pc, nvs, bits, retry_count, wifi_mode, wifi_started,
                   sta_config, h_cfg, main_locals, task_locals, history>>

\* recv(sock, rx_buffer, sizeof(rx_buffer) - 1, 0): at most 511 bytes.
recv(msg) == strncpy(msg, RX_BUFFER_SIZE - 1)

\* -------------------------------------------------------- wifi_init_softap
\* Lines 207-219: the access point's address and DHCP server are set, then
\* esp_wifi_set_mode(WIFI_MODE_AP).
softap_set_mode ==
    /\ pc["main"] = "ap_mode"
    /\ wifi_mode' = "AP"
    /\ Goto("main", "ap_config")
    /\ UNCHANGED <<nvs, bits, retry_count, wifi_started, sta_config, sta_state,
                   event_queue, h_cfg, main_locals, task_locals, history>>

\* Line 220: esp_wifi_set_config(WIFI_IF_AP, ...) leaves the station
\* configuration alone.
softap_set_config ==
    /\ pc["main"] = "ap_config"
    /\ Goto("main", "ap_start")
    /\ UNCHANGED <<nvs, bits, retry_count, radio, event_queue, h_cfg,
                   main_locals, task_locals, history>>

\* Line 221: esp_wifi_start(); the driver posts WIFI_EVENT_AP_START.
softap_start ==
    /\ pc["main"] = "ap_start"
    /\ QueueHasRoom
    /\ wifi_started' = TRUE
    /\ event_queue' = Append(event_queue, "AP_START")
    /\ Goto("main", "m_create")
    /\ UNCHANGED <<nvs, bits, retry_count, wifi_mode, sta_config, sta_state,
                   h_cfg, main_locals, task_locals, history>>

wifi_init_softap ==
    \/ softap_set_mode
    \/ softap_set_config
    \/ softap_start

\* ----------------------------------------------------------------- app_main
\* Lines 392-414: nvs_init and the driver set-up; a store that cannot be
\* opened ends app_main.
main_init ==
    /\ pc["main"] = "m_init"
    /\ \/ Goto("main", "m_read")
       \/ Goto("main", "m_return")
    /\ UNCHANGED <<nvs, bits, retry_count, radio, event_queue, h_cfg,
                   main_locals, task_locals, history>>

\* Mutant of AfterRead: the result of the read is ignored and connect_wifi
\* is called with whatever the buffers hold.
AfterRead_AlwaysConnect(found) == "c_stop"

\* Where app_main goes after nvs_read_wifi_data (lines 421-432).
AfterRead(found) == IF found THEN "c_stop" ELSE "ap_mode"

\* Lines 417-421: the stored credential is read.
main_read ==
    /\ pc["main"] = "m_read"
    /\ m_found' = nvs_read_ok(nvs)
    /\ m_cred' = IF nvs_read_ok(nvs) THEN nvs_read_value(nvs) ELSE NoCred
    /\ Goto("main", AfterRead(nvs_read_ok(nvs)))
    /\ UNCHANGED <<nvs, bits, retry_count, radio, event_queue, h_cfg,
                   task_locals, history>>

\* Lines 423-424: connect_wifi returned ESP_OK.
main_connected ==
    /\ pc["main"] = "c_ok"
    /\ Goto("main", "m_create")
    /\ UNCHANGED <<nvs, bits, retry_count, radio, event_queue, h_cfg,
                   main_locals, task_locals, history>>

\* Lines 425-427: connect_wifi returned ESP_FAIL, switch to AP mode.
main_connect_failed ==
    /\ pc["main"] = "c_fail"
    /\ Goto("main", "ap_mode")
    /\ UNCHANGED <<nvs, bits, retry_count, radio, event_queue, h_cfg,
                   main_locals, task_locals, history>>

\* Line 436: xTaskCreate(tcp_server_task, ...).
main_create_task ==
    /\ pc["main"] = "m_create"
    /\ pc' = [pc EXCEPT !["main"] = "m_done", !["task"] = "t_socket"]
    /\ UNCHANGED <<nvs, bits, retry_count, radio, event_queue, h_cfg,
                   main_locals, task_locals, history>>

app_main ==
    \/ main_init
    \/ main_read
    \/ main_connected
    \/ main_connect_failed
    \/ main_create_task

\* ---------------------------------------------------------- tcp_server_task
\* Lines 298-312: the listening socket; without one the task deletes itself.
task_socket ==
    /\ pc["task"] = "t_socket"
    /\ \/ Goto("task", "t_accept")
       \/ Goto("task", "t_deleted")
    /\ UNCHANGED <<nvs, bits, retry_count, radio, event_queue, h_cfg,
                   main_locals, task_locals, history>>

\* Lines 321-327: a client is accepted.  ssid, password and ssid_received
\* are declared outside the loops (lines 287-289) and are not touched here.
task_accept ==
    /\ pc["task"] = "t_accept"
    /\ reply' = "none"
    /\ name_here' = FALSE
    /\ Goto("task", "t_recv")
    /\ UNCHANGED <<nvs, bits, retry_count, radio, event_queue, h_cfg,
                   main_locals, rx_buffer, ssid, password, ssid_received,
                   history>>

\* Lines 332-333, 373: recv returns 0 or an error; the socket is closed.
task_client_closed ==
    /\ pc["task"] = "t_recv"
    /\ name_here' = FALSE
    /\ Goto("task", "t_accept")
    /\ UNCHANGED <<nvs, bits, retry_count, radio, event_queue, h_cfg,
                   main_locals, rx_buffer, ssid, password, ssid_received,
                   reply, history>>

\* Mutant of task_recv_name: the first step looks the message up for the
\* password key.
task_recv_name_PasswordKey(msg) ==
    /\ pc["task"] = "t_recv"
    /\ ~ssid_received
    /\ rx_buffer' = recv(msg)
    /\ LET r == validate_and_extract_value(rx_buffer', KEY_WIFI_PASSWORD,
                                           WIFI_NAME_SIZE)
       IN  IF r.found
           THEN /\ ssid' = r.value
                /\ ssid_received' = TRUE
                /\ name_here' = TRUE
                /\ reply' = "ssid_received"
           ELSE /\ reply' = "ssid_invalid"
                /\ UNCHANGED <<ssid, ssid_received, name_here>>
    /\ UNCHANGED <<pc, nvs, bits, retry_count, radio, event_queue, h_cfg,
                   main_locals, password, history>>

\* Lines 339-348: first step, the SSID.
task_recv_name(msg) ==
    /\ pc["task"] = "t_recv"
    /\ ~ssid_received
    /\ rx_buffer' = recv(msg)
    /\ LET r == validate_and_extract_value(rx_buffer', KEY_WIFI_NAME,
                                           WIFI_NAME_SIZE)
       IN  IF r.found
           THEN /\ ssid' = r.value
                /\ ssid_received' = TRUE
                /\ name_here' = TRUE
                /\ reply' = "ssid_received"
           ELSE /\ reply' = "ssid_invalid"
                /\ UNCHANGED <<ssid, ssid_received, name_here>>
    /\ UNCHANGED <<pc, nvs, bits, retry_count, radio, event_queue, h_cfg,
                   main_locals, password, history>>

\* Mutant of task_recv_password: a message without a valid password sends
\* the session back to its first step.
task_recv_password_ResetOnInvalid(msg) ==
    /\ pc["task"] = "t_recv"
    /\ ssid_received
    /\ rx_buffer' = recv(msg)
    /\ LET r == validate_and_extract_value(rx_buffer', KEY_WIFI_PASSWORD,
                                           WIFI_PASS_SIZE)
       IN  IF r.found
           THEN /\ password' = r.value
                /\ reply' = "none"
                /\ Goto("task", "c_stop")
                /\ UNCHANGED ssid_received
           ELSE /\ reply' = "password_invalid"
                /\ ssid_received' = FALSE
                /\ UNCHANGED <<pc, password>>
    /\ UNCHANGED <<nvs, bits, retry_count, radio, event_queue, h_cfg,
                   main_locals, ssid, name_here, history>>

\* Lines 349-353, 367-370: second step, the password; connect_wifi is
\* called when it is extracted.
task_recv_password(msg) ==
    /\ pc["task"] = "t_recv"
    /\ ssid_received
    /\ rx_buffer' = recv(msg)
    /\ LET r == validate_and_extract_value(rx_buffer', KEY_WIFI_PASSWORD,
                                           WIFI_PASS_SIZE)
       IN  IF r.found
           THEN /\ password' = r.value
                /\ reply' = "none"
                /\ Goto("task", "c_stop")
           ELSE /\ reply' = "password_invalid"
                /\ UNCHANGED <<pc, password>>
    /\ UNCHANGED <<nvs, bits, retry_count, radio, event_queue, h_cfg,
                   main_locals, ssid, ssid_received, name_here, history>>

\* Lines 353-355: connect_wifi returned ESP_OK, the credential is written.
task_connected ==
    /\ pc["task"] = "c_ok"
    /\ Goto("task", "w_ssid")
    /\ UNCHANGED <<nvs, bits, retry_count, radio, event_queue, h_cfg,
                   main_locals, task_locals, history>>

\* Lines 355-366: the response for the outcome, and the flag is cleared.
task_reply ==
    /\ pc["task"] \in {"w_true", "w_false", "c_fail"}
    /\ reply' = CASE pc["task"] = "w_true" -> "connected_saved"
                  [] pc["task"] = "w_false" -> "connected_not_saved"
                  [] pc["task"] = "c_fail" -> "connect_failed"
    /\ ssid_received' = FALSE
    /\ name_here' = FALSE
    /\ Goto("task", "t_recv")
    /\ UNCHANGED <<nvs, bits, retry_count, radio, event_queue, h_cfg,
                   main_locals, rx_buffer, ssid, password, history>>

tcp_server_task ==
    \/ task_socket
    \/ task_accept
    \/ task_client_closed
    \/ \E msg \in Messages : task_recv_name(msg)
    \/ \E msg \in Messages : task_recv_password(msg)
    \/ task_connected
    \/ task_reply

\* ---------------------------------------------------------- specification
Next ==
    \/ app_main
    \/ wifi_init_softap
    \/ \E self \in Callers : connect_wifi(self)
    \/ \E self \in Writers : nvs_write_wifi_data(self)
    \/ wifi_event_handler
    \/ tcp_server_task
    \/ net_got_ip
    \/ net_disconnected

Spec == Init /\ [][Next]_vars

\* ------------------------------------------------------------ properties
WriteLabels == {"w_ssid", "w_pass", "w_commit"}
ConnectLabels ==
    {"c_stop", "c_mode", "c_config", "c_start", "c_wait", "c_timeout",
     "c_ok", "c_fail"}

ApActive == wifi_mode = "AP" /\ wifi_started

\* No context has a step left to take: only a client or the network can
\* make the system move.
Quiescent ==
    /\ pc["main"] \in {"m_done", "m_return"}
    /\ pc["task"] \in {"t_accept", "t_recv", "t_deleted"}
    /\ pc["evt"] = "h_idle"
    /\ event_queue = <<>>

StoreHolds(cred) ==
    /\ DOMAIN nvs = {WIFI_SSID_KEY, WIFI_PASS_KEY}
    /\ nvs[WIFI_SSID_KEY] = cred.ssid
    /\ nvs[WIFI_PASS_KEY] = cred.password

\* C1: every pair handed to nvs_write_wifi_data, by the handler or by the
\* provisioning session, is a pair under which an address was acquired
\* while it was the active station configuration.
C1_OnlyValidatedWritten ==
    \A self \in Writers :
        pc[self] \in WriteLabels => write_args(self) \in validated

\* C2: connect_wifi returns ESP_OK only if the connected bit was set by an
\* address-acquired event handled after this call started its handshake.
C2_ConnectedOnlySignalled ==
    \A self \in Callers : pc[self] = "c_ok" => signalled

\* C3: in the step in which connect_wifi starts the handshake
\* (esp_wifi_start), retry_count is 0.
C3_RetryZeroAtRequest ==
    [][\A self \in Callers : connect_start(self) => retry_count' = 0]_vars

\* C4: once connect_wifi has returned ESP_FAIL and every context has
\* finished what it had to do, the access point is active.
C4_TimeoutFallsBackToAp ==
    (last_outcome = "timed_out" /\ Quiescent) => ApActive

\* C5: in the step that accepts a client the session is in its first
\* phase (ssid_received is false), so no name of an earlier client is
\* pending.
C5_FreshSessionOnAccept ==
    [][task_accept => ~ssid_received']_vars

\* C6: retry_count stays within 0..MAX_RETRY, and it is 0 once the handler
\* has finished an address-acquired event and has handled no
\* station-disconnected event since.
C6_RetryCounterBounded ==
    /\ retry_count \in 0..MAX_RETRY
    /\ (pc["evt"] = "h_idle" /\ disc_run = 0) => retry_count = 0

\* C6 witness: the counter has reached MAX_RETRY after MAX_RETRY
\* disconnects in a row.
C6_Witness ==
    retry_count = MAX_RETRY /\ disc_run = MAX_RETRY /\ pc["evt"] = "h_idle"

\* C7: after MAX_RETRY station-disconnected events in a row, once every
\* context has finished, no reconnect is under way, the connected bit is
\* clear and the access point is active.
C7_FiveDisconnectsFailToAp ==
    (disc_run >= MAX_RETRY /\ Quiescent) =>
        (sta_state # "connecting" /\ ~bits /\ ApActive)

\* The boot read failed: app_main is past nvs_read_wifi_data, which
\* returned false.
BootReadFailed ==
    pc["main"] \notin {"m_init", "m_read", "m_return"} /\ ~m_found

\* C8: when the boot read fails, app_main never enters connect_wifi, the
\* radio is not put in station mode and no station connection is started
\* before the server task exists, and the access point is active when the
\* task is created.
C8_NoCredentialBootsAp ==
    BootReadFailed =>
        /\ pc["main"] \notin ConnectLabels
        /\ (pc["task"] = "t_none" =>
              (wifi_mode # "STA" /\ sta_state = "idle" /\ sta_config = NoCred))
        /\ (pc["main"] = "m_create" => ApActive)

\* C8 witness: the read failed and app_main is about to create the task.
C8_Witness ==
    BootReadFailed /\ pc["main"] = "m_create" /\ ApActive

\* C9: in the step that sends the response after connect_wifi returned
\* ESP_OK, "connected and saved" is sent only if the store holds exactly
\* (ssid, password), and "connected but not saved" only if it does not.
C9_ReplyReflectsStore ==
    [][task_reply =>
         /\ (reply' = "connected_saved" =>
                StoreHolds([ssid |-> ssid, password |-> password]))
         /\ (reply' = "connected_not_saved" =>
                ~StoreHolds([ssid |-> ssid, password |-> password]))]_vars

\* C10: no field of the store is ever the empty string.
C10_StoredFieldsNonEmpty ==
    \A k \in DOMAIN nvs : nvs[k] # <<>>

\* ------------------------------------------- the store, one call at a time
\* A string of n bytes b.
Rep(b, n) == [i \in 1..n |-> b]

\* The names and secrets handed to nvs_write_wifi_data: one byte, the
\* longest that fits the buffers of lines 287-288, the stored ones.
WrittenNames == {NameA, <<66>>, Rep(66, WIFI_NAME_SIZE - 1)}
WrittenSecrets == {SecretX, <<121>>, Rep(121, WIFI_PASS_SIZE - 1)}

\* nvs_read_wifi_data has not been called yet and nvs_write_wifi_data(ssid,
\* password) is about to be: no other context touches the store.
InitStore ==
    /\ pc = [main |-> "m_read", task |-> "w_ssid", evt |-> "h_idle"]
    /\ nvs \in InitialStores
    /\ ssid \in WrittenNames
    /\ password \in WrittenSecrets
    /\ ssid_received = TRUE
    /\ bits = FALSE
    /\ retry_count = 0
    /\ wifi_mode = "NULL"
    /\ wifi_started = FALSE
    /\ sta_config = NoCred
    /\ sta_state = "idle"
    /\ event_queue = <<>>
    /\ h_cfg = NoCred
    /\ m_found = FALSE
    /\ m_cred = NoCred
    /\ rx_buffer = <<>>
    /\ reply = "none"
    /\ name_here = FALSE
    /\ validated = {}
    /\ signalled = FALSE
    /\ disc_run = 0
    /\ last_outcome = "none"

\* The stored pair is read first, then the write runs to its return.
NextStore ==
    \/ main_read
    \/ (pc["main"] # "m_read" /\ nvs_write_wifi_data("task"))

StoreSpec == InitStore /\ [][NextStore]_vars

\* C11: when nvs_write_wifi_data has returned false, a read returns what
\* the read before the call returned: the same success or failure and, on
\* success, the same pair.
C11_FailedWriteKeepsStored ==
    pc["task"] = "w_false" =>
        /\ nvs_read_ok(nvs) = m_found
        /\ (m_found => nvs_read_value(nvs) = m_cred)

\* --------------------------------------------------- the session's steps
HasValidName(msg) ==
    validate_and_extract_value(recv(msg), KEY_WIFI_NAME, WIFI_NAME_SIZE).found

HasValidPassword(msg) ==
    validate_and_extract_value(recv(msg), KEY_WIFI_PASSWORD,
                               WIFI_PASS_SIZE).found

\* The messages without a valid wifi_name field, and those without a valid
\* wifi_password field.
NoValidName == {msg \in Messages : ~HasValidName(msg)}
NoValidPassword == {msg \in Messages : ~HasValidPassword(msg)}

\* C12: in the first step a message without a valid wifi_name field gets
\* the SSID-invalid response and nothing else happens: the session stays in
\* its first step with the name it had, the task does not enter
\* connect_wifi or nvs_write_wifi_data, store and radio are untouched.
C12_BadNameKeepsAwaitingName ==
    [][\A msg \in NoValidName :
         task_recv_name(msg) =>
            /\ reply' = "ssid_invalid"
            /\ ~ssid_received'
            /\ UNCHANGED <<pc, nvs, bits, retry_count, radio, event_queue,
                           ssid, password>>]_vars

\* C12 witness: a message carrying only wifi_password was answered in the
\* first step.
C12_Witness ==
    /\ pc["task"] = "t_recv"
    /\ rx_buffer = PassMsg(SecretX)
    /\ reply = "ssid_invalid"
    /\ ~ssid_received

\* C13: in the second step a message without a valid wifi_password field
\* gets the password-invalid response and nothing else happens: the session
\* stays in its second step with the pending name, the task does not enter
\* connect_wifi, store and radio are untouched.
C13_BadPasswordKeepsSession ==
    [][\A msg \in NoValidPassword :
         task_recv_password(msg) =>
            /\ reply' = "password_invalid"
            /\ ssid_received'
            /\ UNCHANGED <<pc, nvs, bits, retry_count, radio, event_queue,
                           ssid, password>>]_vars

\* C13 witness: with a name pending, a message carrying only wifi_name was
\* answered in the second step.
C13_Witness ==
    /\ pc["task"] = "t_recv"
    /\ rx_buffer = NameMsg(NameA)
    /\ reply = "password_invalid"
    /\ ssid_received
    /\ ssid = NameA

\* The task is inside connect_wifi or the nvs_write_wifi_data that follows
\* it (lines 353-355).
TaskInRequest ==
    pc["task"] \in ConnectLabels \cup WriteLabels \cup {"w_true", "w_false"}

OutcomeReplies ==
    {"connected_saved", "connected_not_saved", "connect_failed"}

\* C14: the task is inside connect_wifi only with a password just
\* extracted from the buffer in the second step, a name extracted on this
\* connection and no response sent yet; and once the response for the
\* outcome is the last one sent, the task is back at recv or accept with
\* the session in its first step.
C14_ConnectOnlyAfterBothSteps ==
    /\ TaskInRequest =>
          /\ ssid_received
          /\ name_here
          /\ reply = "none"
          /\ validate_and_extract_value(rx_buffer, KEY_WIFI_PASSWORD,
                 WIFI_PASS_SIZE) = [found |-> TRUE, value |-> password]
    /\ reply \in OutcomeReplies =>
          (pc["task"] \in {"t_recv", "t_accept"} /\ ~ssid_received)

BothKeys == {WIFI_SSID_KEY, WIFI_PASS_KEY}

\* C15: after nvs_write_wifi_data(ssid, password) has returned true, a read
\* succeeds and returns exactly (ssid, password), for names up to 31 bytes
\* and secrets up to 63; and a read that succeeded found both keys in the
\* store and returned what they held.
C15_WriteReadRoundTrip ==
    /\ pc["task"] = "w_true" =>
          /\ nvs_read_ok(nvs)
          /\ nvs_read_value(nvs) = [ssid |-> ssid, password |-> password]
    /\ (pc["main"] # "m_read" /\ pc["task"] = "w_ssid" /\ m_found) =>
          /\ BothKeys \subseteq DOMAIN nvs
          /\ m_cred = [ssid |-> nvs[WIFI_SSID_KEY],
                       password |-> nvs[WIFI_PASS_KEY]]
    /\ (pc["main"] # "m_read" /\ pc["task"] = "w_ssid" /\ ~m_found) =>
          ~(BothKeys \subseteq DOMAIN nvs)

\* C15 witness: the longest name and the longest secret were written over
\* a stored pair and the write returned true.
C15_Witness ==
    /\ pc["task"] = "w_true"
    /\ m_found
    /\ Len(ssid) = WIFI_NAME_SIZE - 1
    /\ Len(password) = WIFI_PASS_SIZE - 1
    /\ nvs_read_value(nvs) # m_cred

\* ------------------------------------------- the extractor, one buffer
\* The buffers handed to validate_and_extract_value: around either key or
\* none, what may stand before it, between it and the ':', between the ':'
\* and the opening quote, the value, and what may be missing.
Gaps == {<<>>, <<32>>, <<QUOTE, 97>>, <<53, 44>>}

Values ==
    { <<>>, <<65>>, <<10>>, <<31, 32, 200>>,
      Rep(65, WIFI_NAME_SIZE - 1), <<9>> \o Rep(65, WIFI_NAME_SIZE - 2),
      Rep(65, WIFI_NAME_SIZE),
      Rep(65, WIFI_PASS_SIZE - 1), Rep(65, WIFI_PASS_SIZE) }

Buffers ==
    { pre \o k \o g1 \o c \o g2 \o q1 \o v \o q2 \o post :
        pre \in {<<>>, <<123>>},
        k \in {KEY_WIFI_NAME, KEY_WIFI_PASSWORD, <<>>},
        g1 \in Gaps,
        c \in {<<COLON>>, <<>>},
        g2 \in Gaps,
        q1 \in {<<QUOTE>>, <<>>},
        v \in Values,
        q2 \in {<<QUOTE>>, <<>>},
        post \in {<<125>>, <<44, QUOTE, 97, QUOTE, 125>>} } \ {<<>>}

\* A client is connected and the task is at recv, in either step.
InitExtract ==
    /\ pc = [main |-> "m_done", task |-> "t_recv", evt |-> "h_idle"]
    /\ ssid_received \in BOOLEAN
    /\ ssid = (IF ssid_received THEN NameA ELSE <<>>)
    /\ name_here = ssid_received
    /\ rx_buffer = <<>>
    /\ password = <<>>
    /\ reply = "none"
    /\ nvs \in InitialStores
    /\ bits = FALSE
    /\ retry_count = 0
    /\ wifi_mode = "AP"
    /\ wifi_started = TRUE
    /\ sta_config = NoCred
    /\ sta_state = "idle"
    /\ event_queue = <<>>
    /\ h_cfg = NoCred
    /\ m_found = FALSE
    /\ m_cred = NoCred
    /\ validated = {}
    /\ signalled = FALSE
    /\ disc_run = 0
    /\ last_outcome = "none"

\* One buffer is received and looked up.
NextExtract ==
    \/ (rx_buffer = <<>> /\ \E msg \in Buffers : task_recv_name(msg))
    \/ (rx_buffer = <<>> /\ \E msg \in Buffers : task_recv_password(msg))

ExtractSpec == InitExtract /\ [][NextExtract]_vars

\* What the step that received rx_buffer looked up, and what it got.
NameStepDone == rx_buffer # <<>> /\ reply \in {"ssid_received", "ssid_invalid"}
ExtractKey == IF NameStepDone THEN KEY_WIFI_NAME ELSE KEY_WIFI_PASSWORD
ExtractCapacity == IF NameStepDone THEN WIFI_NAME_SIZE ELSE WIFI_PASS_SIZE
ExtractFound == reply = "ssid_received" \/ pc["task"] = "c_stop"
ExtractOutput == IF NameStepDone THEN ssid ELSE password

KeyAt(buf, key, i) ==
    /\ i + Len(key) - 1 <= Len(buf)
    /\ \A j \in 1..Len(key) : buf[i + j - 1] = key[j]

\* buf contains key immediately followed by :" and a closing quote later.
ContainsPattern(buf, key) ==
    \E i \in 1..Len(buf) :
        /\ KeyAt(buf, key, i)
        /\ i + Len(key) + 1 <= Len(buf)
        /\ buf[i + Len(key)] = COLON
        /\ buf[i + Len(key) + 1] = QUOTE
        /\ \E e \in (i + Len(key) + 2)..Len(buf) : buf[e] = QUOTE

\* buf contains key, a ':' after it, a quote after that and a second quote
\* after that, whatever stands between them.
HasMarkers(buf, key) ==
    \E i \in 1..Len(buf) :
        /\ KeyAt(buf, key, i)
        /\ \E c \in (i + Len(key))..Len(buf) :
              /\ buf[c] = COLON
              /\ \E q \in (c + 1)..Len(buf) :
                    /\ buf[q] = QUOTE
                    /\ \E e \in (q + 1)..Len(buf) : buf[e] = QUOTE

\* C16 as stated: a buffer that does not contain the key immediately
\* followed by :" and a closing quote is answered with not-found.
C16_NotFoundWithoutPattern ==
    (rx_buffer # <<>> /\ ~ContainsPattern(rx_buffer, ExtractKey)) =>
        ~ExtractFound

\* C16, amended: a buffer in which the key is not followed, in this order
\* and with anything in between, by a ':', a quote and a second quote is
\* answered with not-found.
C16_NotFoundWithoutMarkers ==
    (rx_buffer # <<>> /\ ~HasMarkers(rx_buffer, ExtractKey)) =>
        ~ExtractFound

\* C16 witness: the key is there with a quoted value but no ':' after it,
\* and the answer was not-found.
C16_Witness ==
    /\ NameStepDone
    /\ \E i \in 1..Len(rx_buffer) : KeyAt(rx_buffer, KEY_WIFI_NAME, i)
    /\ \A i \in 1..Len(rx_buffer) : rx_buffer[i] # COLON
    /\ Cardinality({i \in 1..Len(rx_buffer) : rx_buffer[i] = QUOTE}) >= 4
    /\ ~ExtractFound

\* The least element of a set of positions.
Least(S) == CHOOSE i \in S : \A k \in S : i <= k

\* The bytes between the opening quote (the first quote after the first
\* ':' after the first occurrence of the key) and the next quote.
Between(buf, key) ==
    LET i == Least({n \in 1..Len(buf) : KeyAt(buf, key, n)})
        c == Least({n \in i..Len(buf) : buf[n] = COLON})
        q == Least({n \in c..Len(buf) : buf[n] = QUOTE})
        e == Least({n \in (q + 1)..Len(buf) : buf[n] = QUOTE})
    IN  SubSeq(buf, q + 1, e - 1)

Sanitized(v) == [i \in 1..Len(v) |-> IF v[i] < 32 THEN UNDERSCORE ELSE v[i]]

\* C17: when the key, a later ':', a later quote and a later closing quote
\* are found, the extraction succeeds exactly when fewer bytes than the
\* capacity stand between the quotes, and the output is then those bytes
\* with every byte below 32 replaced by '_'.
C17_ExtractsWhenItFits ==
    (rx_buffer # <<>> /\ HasMarkers(rx_buffer, ExtractKey)) =>
        /\ ExtractFound <=>
              Len(Between(rx_buffer, ExtractKey)) < ExtractCapacity
        /\ ExtractFound =>
              ExtractOutput = Sanitized(Between(rx_buffer, ExtractKey))

\* C17 witness: a value one byte short of the capacity, with a control
\* byte in it, was extracted.
C17_Witness ==
    /\ NameStepDone
    /\ ExtractFound
    /\ Len(ssid) = WIFI_NAME_SIZE - 1
    /\ ssid[1] = UNDERSCORE
    /\ Between(rx_buffer, KEY_WIFI_NAME)[1] = 9

\* A context that has set the first key in nvs_write_wifi_data and has not
\* returned from it.
MidWrite(self) == pc[self] \in {"w_pass", "w_commit"}

\* C18: the handler and the task are never in the middle of
\* nvs_write_wifi_data at the same time.
C18_WritesNeverOverlap ==
    ~(MidWrite("evt") /\ MidWrite("task"))

\* C19: every step that sets the radio's mode, esp_wifi_set_mode in
\* connect_wifi or in wifi_init_softap, and every step that changes it, is
\* taken with the radio stopped and leaves it stopped; the mode is one of
\* station and access point, never both.
C19_ModeChangesWhileStopped ==
    [][(\/ wifi_mode' # wifi_mode
        \/ \E self \in Callers : connect_set_mode(self)
        \/ softap_set_mode) =>
           /\ ~wifi_started
           /\ ~wifi_started'
           /\ wifi_mode' \in {"STA", "AP"}]_vars

\* C19 witness: after a boot into access-point mode the task's
\* connect_wifi has stopped the radio and switched it to station mode.
C19_Witness ==
    /\ BootReadFailed
    /\ pc["task"] = "c_config"
    /\ wifi_mode = "STA"
    /\ ~wifi_started

\* The handler has handled every event posted so far.
EventsHandled == pc["evt"] = "h_idle" /\ event_queue = <<>>

\* C20: once every posted event is handled, the connected bit is set only
\* while the radio runs in station mode and the station is connected with
\* an address acquired under the applied configuration; so it is clear
\* after a disconnect and after connect_wifi stopped the radio.
C20_BitReflectsConnection ==
    (bits /\ EventsHandled) =>
        /\ wifi_started
        /\ wifi_mode = "STA"
        /\ sta_state = "connected"
        /\ sta_config \in validated

====
